---- MODULE Spec2Model ----
(***************************************************************************)
(* Model of bvp/api/v1_3/implementations.py: the two request handlers      *)
(* post_udi_event_response (ingestion of UDI events) and                   *)
(* get_device_message_response (retrieval of schedules), together with the *)
(* stores they read and write: the asset table, the scheduling queue and   *)
(* the Power time series.                                                  *)
(*                                                                         *)
(* Conventions.  Datetimes are instants counted in minutes.  An optional   *)
(* value (Python None, a missing form field, NaN in a series) is the empty *)
(* tuple, a present value x is <<x>>.  Energy is kept in thousandths of a  *)
(* MWh, so that the division by 1000.0 of a kWh value is exact.            *)
(***************************************************************************)
EXTENDS Integers, Sequences, FiniteSets, TLC

VARIABLES
    mode,     \* current_app.config["BVP_MODE"]
    assets,   \* the Asset table: asset id -> row
    jobs,     \* the scheduling queue's jobs: job id (raw event string) -> job
    power,    \* Power rows of the battery labelled by the scheduler: datetime -> value
    sources,  \* labels of the DataSource rows
    last,     \* the last handler call: its inputs, the state it saw, its response
    accepted, \* history: the events of the submissions accepted so far
    latest,   \* history: the event and datetime of the submission accepted last
    inflight  \* the submissions being handled side by side: worker -> its position and locals

vars == <<mode, assets, jobs, power, sources, last, accepted, latest, inflight>>

None == <<>>
EmptyMap == [x \in {} |-> None]
Some(x) == <<x>>
IsSome(o) == o # <<>>
Val(o) == o[1]

Min(a, b) == IF a <= b THEN a ELSE b

----------------------------------------------------------------------------
(* Bounds of the model *)

MaxConcurrent == 2     \* submissions handled side by side
MaxEventStep == 1      \* event datetimes are 0 .. MaxEventStep steps of 15 minutes
MaxEventId == 2        \* event ids are 1 .. MaxEventId
PlanningSteps == 3     \* BVP_PLANNING_HORIZON, in steps of 15 minutes

----------------------------------------------------------------------------
(* Constants of the program *)

resolution == 15
KWhPerMWh == 1000
BVP_PLANNING_HORIZON == PlanningSteps * resolution

Modes == {"play", "production"}
Units == {"kWh", "MWh"}
EventTimes == {k * resolution : k \in 0..MaxEventStep}
EventIds == 1..MaxEventId

\* A quantity of x MWh, in thousandths of a MWh.
MilliMWh(x) == x * 1000

----------------------------------------------------------------------------
(* Responses of bvp.api.common.responses: the function called, its message *)
(* text and the values formatted into it.                                  *)

Resp(fn, msg, args) == [fn |-> fn, msg |-> msg, args |-> args, detail |-> <<>>]

invalid_datetime(msg, args) == Resp("invalid_datetime", msg, args)
invalid_timezone(msg) == Resp("invalid_timezone", msg, <<>>)
invalid_domain(msg, args) == Resp("invalid_domain", msg, args)
unrecognized_event_type(event_type) == Resp("unrecognized_event_type", event_type, <<>>)
unrecognized_connection_group == Resp("unrecognized_connection_group", "", <<>>)
outdated_event_id(event_id, last_id) == Resp("outdated_event_id", "", <<event_id, last_id>>)
ptus_incomplete(msg) == Resp("ptus_incomplete", msg, <<>>)
incomplete_event(event_id, event_type, msg) == Resp("incomplete_event", msg, <<event_id>>)
unrecognized_event(event_id, event_type) == Resp("unrecognized_event", event_type, <<event_id>>)
request_processed == Resp("request_processed", "", <<>>)
\* unknown_schedule(message): the text, and the texts formatted into or put before it
unknown_schedule(msg, detail) ==
    [fn |-> "unknown_schedule", msg |-> msg, args |-> <<>>, detail |-> detail]
\* An exception that leaves the handler: the framework answers 500.
raised(what) == Resp("raised", what, <<>>)

----------------------------------------------------------------------------
(* Request fields *)

\* An ISO datetime string: unparsable, without offset, or with offset.
DatetimeStr(kind, t) == [kind |-> kind, t |-> t]

parse_isodate_str(s) ==
    IF s.kind = "garbage" THEN None
    ELSE Some([instant |-> s.t, tzinfo |-> s.kind = "aware"])

\* An event address string, ...:<asset id>:<event id>:<event type>, or one
\* that does not parse.
EventStr(asset_id, event_id, event_type) ==
    [valid |-> TRUE, asset_id |-> asset_id, event_id |-> event_id, event_type |-> event_type]
GarbageEvent == [valid |-> FALSE, asset_id |-> 0, event_id |-> 0, event_type |-> ""]

validate_entity_address(s) ==
    IF s.valid
    THEN Some([asset_id |-> s.asset_id, event_id |-> s.event_id, event_type |-> s.event_type])
    ELSE None

----------------------------------------------------------------------------
(* The Asset table *)

BatteryId == 1
AssetRow(type, accessible) ==
    [asset_type_name |-> type, accessible |-> accessible,
     soc_datetime |-> None, soc_udi_event_id |-> None, soc_in_mwh |-> None]

InitAssets ==
    (1 :> AssetRow("battery", TRUE)) @@
    (2 :> AssetRow("solar", TRUE)) @@
    (3 :> AssetRow("charging_station", FALSE))

\* Asset.query.filter_by(id=asset_id).one_or_none()
AssetLookup(table, asset_id) ==
    IF asset_id \in DOMAIN table THEN Some(table[asset_id]) ELSE None

can_access_asset(asset) == asset.accessible

----------------------------------------------------------------------------
(* post_udi_event_response *)

\* What a run of the validation part of the handler yields: an error response,
\* or the plan of the dispatch and of the asset update that follow.
Reject(resp) == [resp |-> Some(resp), plan |-> None]
Proceed(plan) == [resp |-> None, plan |-> Some(plan)]

\* Variants of ordering_check with a slip: the datetime check left out, an
\* event id equal to the last one let through, the id checked first.
ordering_check_without_date(bvp_mode, asset, datetime, event_id) ==
    IF bvp_mode # "play"
         /\ IsSome(asset.soc_udi_event_id) /\ Val(asset.soc_udi_event_id) >= event_id
    THEN Some(outdated_event_id(event_id, Val(asset.soc_udi_event_id)))
    ELSE None

ordering_check_ties_pass(bvp_mode, asset, datetime, event_id) ==
    IF bvp_mode # "play"
    THEN IF IsSome(asset.soc_datetime) /\ datetime < Val(asset.soc_datetime)
         THEN Some(invalid_datetime(
                  "The date of the requested UDI event is earlier than the latest known date.",
                  <<datetime, Val(asset.soc_datetime)>>))
         ELSE IF IsSome(asset.soc_udi_event_id) /\ Val(asset.soc_udi_event_id) > event_id
         THEN Some(outdated_event_id(event_id, Val(asset.soc_udi_event_id)))
         ELSE None
    ELSE None

ordering_check_id_first(bvp_mode, asset, datetime, event_id) ==
    IF bvp_mode # "play"
    THEN IF IsSome(asset.soc_udi_event_id) /\ Val(asset.soc_udi_event_id) >= event_id
         THEN Some(outdated_event_id(event_id, Val(asset.soc_udi_event_id)))
         ELSE IF IsSome(asset.soc_datetime) /\ datetime < Val(asset.soc_datetime)
         THEN Some(invalid_datetime(
                  "The date of the requested UDI event is earlier than the latest known date.",
                  <<datetime, Val(asset.soc_datetime)>>))
         ELSE None
    ELSE None

\* Variant of ordering_check with a slip: the mode is not read.
ordering_check_in_every_mode(bvp_mode, asset, datetime, event_id) ==
    IF IsSome(asset.soc_datetime) /\ datetime < Val(asset.soc_datetime)
    THEN Some(invalid_datetime(
             "The date of the requested UDI event is earlier than the latest known date.",
             <<datetime, Val(asset.soc_datetime)>>))
    ELSE IF IsSome(asset.soc_udi_event_id) /\ Val(asset.soc_udi_event_id) >= event_id
    THEN Some(outdated_event_id(event_id, Val(asset.soc_udi_event_id)))
    ELSE None

\* unless on play, keep events ordered by entry date and ID
ordering_check(bvp_mode, asset, datetime, event_id) ==
    IF bvp_mode # "play"
    THEN IF IsSome(asset.soc_datetime) /\ datetime < Val(asset.soc_datetime)
         THEN Some(invalid_datetime(
                  "The date of the requested UDI event is earlier than the latest known date.",
                  <<datetime, Val(asset.soc_datetime)>>))
         ELSE IF IsSome(asset.soc_udi_event_id) /\ Val(asset.soc_udi_event_id) >= event_id
         THEN Some(outdated_event_id(event_id, Val(asset.soc_udi_event_id)))
         ELSE None
    ELSE None

\* Variant of value_in_mwh with a slip: the kWh value is not converted.
value_in_mwh_unconverted(value, unit) == MilliMWh(value)

\* value = form.get("value"); if unit == "kWh": value = value / 1000.0
value_in_mwh(value, unit) ==
    IF unit = "kWh" THEN MilliMWh(value) \div KWhPerMWh ELSE MilliMWh(value)

\* pd.date_range(start, end, freq=resolution, closed="right")
date_range_right(start, end) ==
    {t \in (start + 1)..end : (t - start) % resolution = 0}

\* pd.Series(np.nan, index=...)
nan_series(index) == [t \in index |-> None]

\* Variant of series_set with a slip: a value already set is kept.
series_set_keeping_first(series, t, v) ==
    [x \in DOMAIN series \cup {t} |->
        IF x \in DOMAIN series /\ IsSome(series[x]) THEN series[x]
        ELSE IF x = t THEN Some(v) ELSE series[x]]

\* soc_targets.loc[target_datetime] = target_value: sets the value of an
\* existing label, and appends the label when the index does not hold it.
series_set(series, t, v) ==
    [x \in DOMAIN series \cup {t} |-> IF x = t THEN Some(v) ELSE series[x]]

\* Variant of set_targets with a slip: a target at end_of_schedule itself is
\* rejected too.
RECURSIVE set_targets_end_excluded(_, _, _, _, _)
set_targets_end_excluded(targets, i, soc_targets, unit, end_of_schedule) ==
    IF i > Len(targets) THEN [resp |-> None, soc_targets |-> soc_targets]
    ELSE LET target == targets[i]
             Fail(resp) == [resp |-> Some(resp), soc_targets |-> soc_targets]
         IN
         IF ~IsSome(target.value)
         THEN Fail(ptus_incomplete("Target missing value parameter."))
         ELSE IF ~IsSome(target.datetime)
         THEN Fail(invalid_datetime("Target missing datetime parameter.", <<>>))
         ELSE LET target_value == value_in_mwh(Val(target.value), unit)
                  parsed == parse_isodate_str(Val(target.datetime))
              IN
              IF ~IsSome(parsed)
              THEN Fail(invalid_datetime("Cannot parse target datetime string as iso date", <<>>))
              ELSE IF ~Val(parsed).tzinfo
              THEN Fail(invalid_timezone("Target datetime should explicitly state a timezone."))
              ELSE IF Val(parsed).instant >= end_of_schedule
              THEN Fail(invalid_datetime("Target datetime exceeds end of schedule.",
                                         <<end_of_schedule>>))
              ELSE set_targets_end_excluded(targets, i + 1,
                               series_set(soc_targets, Val(parsed).instant, target_value),
                               unit, end_of_schedule)

\* The loop over form.get("targets"), from target i on: the first error
\* response, or the series with every target set.
RECURSIVE set_targets(_, _, _, _, _)
set_targets(targets, i, soc_targets, unit, end_of_schedule) ==
    IF i > Len(targets) THEN [resp |-> None, soc_targets |-> soc_targets]
    ELSE LET target == targets[i]
             Fail(resp) == [resp |-> Some(resp), soc_targets |-> soc_targets]
         IN
         IF ~IsSome(target.value)
         THEN Fail(ptus_incomplete("Target missing value parameter."))
         ELSE IF ~IsSome(target.datetime)
         THEN Fail(invalid_datetime("Target missing datetime parameter.", <<>>))
         ELSE LET target_value == value_in_mwh(Val(target.value), unit)
                  parsed == parse_isodate_str(Val(target.datetime))
              IN
              IF ~IsSome(parsed)
              THEN Fail(invalid_datetime("Cannot parse target datetime string as iso date", <<>>))
              ELSE IF ~Val(parsed).tzinfo
              THEN Fail(invalid_timezone("Target datetime should explicitly state a timezone."))
              ELSE IF Val(parsed).instant > end_of_schedule
              THEN Fail(invalid_datetime("Target datetime exceeds end of schedule.",
                                         <<end_of_schedule>>))
              ELSE set_targets(targets, i + 1,
                               series_set(soc_targets, Val(parsed).instant, target_value),
                               unit, end_of_schedule)

\* Lines 241-302: the value, the target series, and the plan made of them.
post_value_and_targets(unit, form, datetime, ea) ==
    IF ~IsSome(form.value) THEN Reject(ptus_incomplete(""))
    ELSE LET value == value_in_mwh(Val(form.value), unit)
             start_of_schedule == datetime
             end_of_schedule == datetime + BVP_PLANNING_HORIZON
             empty_targets == nan_series(date_range_right(start_of_schedule, end_of_schedule))
             Plan(soc_targets) ==
                 [call |-> [asset_id |-> ea.asset_id,
                            start |-> start_of_schedule,
                            end |-> end_of_schedule,
                            resolution |-> resolution,
                            belief_time |-> datetime,
                            soc_at_start |-> value,
                            soc_targets |-> soc_targets,
                            udi_event_ea |-> Val(form.event)],
                  soc_datetime |-> datetime,
                  soc_udi_event_id |-> ea.event_id,
                  soc_in_mwh |-> value]
         IN
         IF ea.event_type = "soc-with-targets"
         THEN IF ~IsSome(form.targets)
              THEN Reject(incomplete_event(ea.event_id, ea.event_type,
                                           "Cannot process event with missing targets."))
              ELSE LET r == set_targets(Val(form.targets), 1, empty_targets, unit, end_of_schedule)
                   IN IF IsSome(r.resp) THEN Reject(Val(r.resp))
                      ELSE Proceed(Plan(r.soc_targets))
         ELSE Proceed(Plan(empty_targets))

\* Lines 196-239: the event address, the asset, the ordering of events.
post_event_and_asset(unit, form, datetime, table, bvp_mode) ==
    IF ~IsSome(form.event) THEN Reject(invalid_domain("No event identifier sent.", <<>>))
    ELSE LET parsed == validate_entity_address(Val(form.event)) IN
    IF ~IsSome(parsed) THEN Reject(invalid_domain("Cannot parse event.", <<>>))
    ELSE LET ea == Val(parsed) IN
    IF ea.event_type \notin {"soc", "soc-with-targets"}
    THEN Reject(unrecognized_event_type(ea.event_type))
    ELSE LET found == AssetLookup(table, ea.asset_id) IN
    IF ~IsSome(found) \/ ~can_access_asset(Val(found))
    THEN Reject(unrecognized_connection_group)
    ELSE LET asset == Val(found) IN
    IF asset.asset_type_name \notin {"battery", "charging_station"}
    THEN Reject(invalid_domain(
             "API version 1.3 only supports UDI events for batteries and charging stations.",
             <<ea.asset_id>>))
    ELSE LET out_of_order == ordering_check(bvp_mode, asset, datetime, ea.event_id) IN
    IF IsSome(out_of_order) THEN Reject(Val(out_of_order))
    ELSE post_value_and_targets(unit, form, datetime, ea)

\* Lines 180-302: everything before the dispatch.
post_validate(unit, form, table, bvp_mode) ==
    IF ~IsSome(form.datetime)
    THEN Reject(invalid_datetime("Missing datetime parameter.", <<>>))
    ELSE LET parsed == parse_isodate_str(Val(form.datetime)) IN
    IF ~IsSome(parsed)
    THEN Reject(invalid_datetime("Cannot parse datetime string as iso date", <<>>))
    ELSE IF ~Val(parsed).tzinfo
    THEN Reject(invalid_timezone("Datetime should explicitly state a timezone."))
    ELSE post_event_and_asset(unit, form, Val(parsed).instant, table, bvp_mode)

\* create_scheduling_job(..., udi_event_ea=form.get("event"), enqueue=True):
\* the job is enqueued under the raw event string as its id, replacing a job
\* of that id.
create_scheduling_job(queue, call) ==
    [k \in DOMAIN queue \cup {call.udi_event_ea} |->
        IF k = call.udi_event_ea
        THEN [status |-> "queued", start |-> call.start,
              exception |-> None, dependency |-> None]
        ELSE queue[k]]

\* Variant of store_soc with a slip: the event id is not stored.
store_soc_without_event_id(table, plan, dispatched) ==
    IF dispatched
    THEN [table EXCEPT ![plan.call.asset_id] =
             [@ EXCEPT !.soc_datetime = Some(plan.soc_datetime),
                       !.soc_in_mwh = Some(plan.soc_in_mwh)]]
    ELSE table

\* Variant of store_soc with a slip: the asset is written before the dispatch
\* is known to have returned.
store_soc_before_dispatch(table, plan, dispatched) ==
    [table EXCEPT ![plan.call.asset_id] =
        [@ EXCEPT !.soc_datetime = Some(plan.soc_datetime),
                  !.soc_udi_event_id = Some(plan.soc_udi_event_id),
                  !.soc_in_mwh = Some(plan.soc_in_mwh)]]

\* Lines 316-319: store new soc in asset.  The lines follow the call of
\* create_scheduling_job, so they run only when that call has returned.
store_soc(table, plan, dispatched) ==
    IF dispatched
    THEN [table EXCEPT ![plan.call.asset_id] =
             [@ EXCEPT !.soc_datetime = Some(plan.soc_datetime),
                       !.soc_udi_event_id = Some(plan.soc_udi_event_id),
                       !.soc_in_mwh = Some(plan.soc_in_mwh)]]
    ELSE table
\* Variant of the handler with a slip: the event datetime is stored in the
\* asset as soon as the events are found ordered, before the value and the
\* targets are validated.
post_udi_event_response_storing_first(unit, form, table, queue, bvp_mode, dispatched) ==
    LET v == post_validate(unit, form, table, bvp_mode) IN
    IF IsSome(v.resp)
    THEN [response |-> Val(v.resp),
          assets |-> IF Val(v.resp).fn \in {"ptus_incomplete", "incomplete_event"}
                     THEN [table EXCEPT ![Val(form.event).asset_id].soc_datetime =
                              Some(Val(form.datetime).t)]
                     ELSE table,
          jobs |-> queue, calls |-> <<>>]
    ELSE LET plan == Val(v.plan) IN
         [response |-> IF dispatched THEN request_processed
                                     ELSE raised("create_scheduling_job"),
          assets |-> store_soc(table, plan, dispatched),
          jobs |-> IF dispatched THEN create_scheduling_job(queue, plan.call) ELSE queue,
          calls |-> <<plan.call>>]

\* The whole handler: the validation, then lines 304-321.  `dispatched` tells
\* whether the call of create_scheduling_job returns or raises.
post_udi_event_response(unit, form, table, queue, bvp_mode, dispatched) ==
    LET v == post_validate(unit, form, table, bvp_mode) IN
    IF IsSome(v.resp)
    THEN [response |-> Val(v.resp), assets |-> table, jobs |-> queue, calls |-> <<>>]
    ELSE LET plan == Val(v.plan) IN
         [response |-> IF dispatched THEN request_processed
                                     ELSE raised("create_scheduling_job"),
          assets |-> store_soc(table, plan, dispatched),
          jobs |-> IF dispatched THEN create_scheduling_job(queue, plan.call) ELSE queue,
          calls |-> <<plan.call>>]


----------------------------------------------------------------------------
(* get_device_message_response *)

scheduler_label == "schedule by Seita"
MostRecentEvent == "Your UDI event is the most recent event for this device, but "
JobProcessed == "A scheduling job has been processed based on your UDI event, but "

\* What the look-up of the schedule start yields: an error response, or the
\* start with the message that goes before later errors.
NoSchedule(resp) == [resp |-> Some(resp), message |-> "", schedule_start |-> 0]
ScheduleStart(message, t) == [resp |-> None, message |-> message, schedule_start |-> t]

\* Variant of job_exception with a slip: the stored exception is not read.
job_exception_not_read(job) ==
    [type |-> "Exception", text |-> "The job does not state why it failed."]

\* job.meta.get("exception", Exception("The job does not state why it failed. ..."))
job_exception(job) ==
    IF IsSome(job.exception) THEN Val(job.exception)
    ELSE [type |-> "Exception", text |-> "The job does not state why it failed."]

\* Variant of job_schedule_start with a slip: the branches of a deferred job
\* and of a job of unknown status are missing, so such a job falls through to
\* schedule_start = job.kwargs["start"].
job_schedule_start_falling_through(job) ==
    IF job.status = "finished" THEN ScheduleStart(JobProcessed, job.start)
    ELSE IF job.status = "failed"
    THEN NoSchedule(unknown_schedule("Scheduling job failed with",
                                     <<job_exception(job).type, job_exception(job).text>>))
    ELSE IF job.status = "started"
    THEN NoSchedule(unknown_schedule("Scheduling job in progress.", <<>>))
    ELSE IF job.status = "queued"
    THEN NoSchedule(unknown_schedule("Scheduling job waiting to be processed.", <<>>))
    ELSE ScheduleStart(JobProcessed, job.start)

\* Lines 97-127: the branches on the state of the job found.
job_schedule_start(job) ==
    IF job.status = "finished" THEN ScheduleStart(JobProcessed, job.start)
    ELSE IF job.status = "failed"
    THEN NoSchedule(unknown_schedule("Scheduling job failed with",
                                     <<job_exception(job).type, job_exception(job).text>>))
    ELSE IF job.status = "started"
    THEN NoSchedule(unknown_schedule("Scheduling job in progress.", <<>>))
    ELSE IF job.status = "queued"
    THEN NoSchedule(unknown_schedule("Scheduling job waiting to be processed.", <<>>))
    ELSE IF job.status = "deferred"
    THEN IF ~IsSome(job.dependency)
         THEN NoSchedule(unknown_schedule(
                  "Scheduling job waiting for unknown job to be processed.", <<>>))
         ELSE NoSchedule(unknown_schedule(
                  "Scheduling job waiting for job to be processed.",
                  <<Val(job.dependency).status, Val(job.dependency).id>>))
    ELSE NoSchedule(unknown_schedule("Scheduling job has an unknown status.", <<>>))

\* Variant of schedule_start_of with a slip: an event without a job is never
\* looked up from the asset.
schedule_start_of_without_fallback(event, ea, asset, queue) ==
    IF event \notin DOMAIN queue
    THEN NoSchedule(unrecognized_event(ea.event_id, ea.event_type))
    ELSE job_schedule_start(queue[event])

\* Variant of schedule_start_of with a slip: an event without a job is taken
\* for the most recent one whatever its id.
schedule_start_of_any_event(event, ea, asset, queue) ==
    IF event \notin DOMAIN queue
    THEN IF IsSome(asset.soc_udi_event_id)
         THEN ScheduleStart(MostRecentEvent, Val(asset.soc_datetime))
         ELSE NoSchedule(unrecognized_event(ea.event_id, ea.event_type))
    ELSE job_schedule_start(queue[event])

\* Lines 85-127: first try the scheduling queue, then the most recent event id.
schedule_start_of(event, ea, asset, queue) ==
    IF event \notin DOMAIN queue
    THEN IF Some(ea.event_id) = asset.soc_udi_event_id
         THEN ScheduleStart(MostRecentEvent, Val(asset.soc_datetime))
         ELSE NoSchedule(unrecognized_event(ea.event_id, ea.event_type))
    ELSE job_schedule_start(queue[event])

\* Variant of planning_horizon_of with a slip: the requested duration is not
\* capped by the configured horizon.
planning_horizon_uncapped(duration) == duration

\* planning_horizon = min(duration, current_app.config.get("BVP_PLANNING_HORIZON"))
planning_horizon_of(duration) == Min(duration, BVP_PLANNING_HORIZON)

SetMin(S) == CHOOSE x \in S : \A y \in S : x <= y

\* The time-series store returns the rows of a query as a sequence ordered
\* by their datetimes.
RECURSIVE ordered(_)
ordered(S) ==
    IF S = {} THEN <<>> ELSE <<SetMin(S)>> \o ordered(S \ {SetMin(S)})

\* Lines 137-147: the datetimes of the Power rows of the asset and the
\* scheduler in [schedule_start, schedule_start + planning_horizon), which
\* become the index of the series.
power_query(series, asset_id, schedule_start, planning_horizon) ==
    IF asset_id = BatteryId
    THEN ordered({t \in DOMAIN series :
                    t >= schedule_start /\ t < schedule_start + planning_horizon})
    ELSE <<>>

\* Line 155: duration = min(duration, schedule.index[-1] + resolution - start)
window_duration(duration, index) ==
    Min(duration, index[Len(index)] + resolution - index[1])

\* Lines 156-157: schedule[start : start + duration - resolution].tolist(),
\* the values at the datetimes of the index from `from` to `to`, both included.
RECURSIVE slice_values(_, _, _, _)
slice_values(series, index, from, to) ==
    IF index = <<>> THEN <<>>
    ELSE (IF Head(index) >= from /\ Head(index) <= to
          THEN <<series[Head(index)]>> ELSE <<>>)
         \o slice_values(series, Tail(index), from, to)

\* Lines 129-157 for one event: the error response, or the start, the
\* duration and the values of the schedule.
schedule_of(found, duration, planning_horizon, asset_id, series, labels) ==
    IF scheduler_label \notin labels
    THEN [resp |-> Some(unknown_schedule("no data is known labeled", <<found.message>>))]
    ELSE LET index == power_query(series, asset_id, found.schedule_start, planning_horizon) IN
    IF index = <<>>
    THEN [resp |-> Some(unknown_schedule("the schedule was not found in the database.",
                                         <<found.message>>))]
    ELSE LET start == index[1]
             new_duration == window_duration(duration, index)
         IN [resp |-> None, start |-> start, duration |-> new_duration,
             values |-> slice_values(series, index, start,
                                     start + new_duration - resolution)]

\* Lines 58-84: the event address, the asset and the event type.
get_event_asset(event, table) ==
    LET parsed == validate_entity_address(event) IN
    IF ~IsSome(parsed) THEN [resp |-> Some(invalid_domain("", <<>>))]
    ELSE LET ea == Val(parsed)
             found == AssetLookup(table, ea.asset_id)
         IN
    IF ~IsSome(found) \/ ~can_access_asset(Val(found))
    THEN [resp |-> Some(unrecognized_connection_group)]
    ELSE IF Val(found).asset_type_name \notin {"battery", "charging_station"}
    THEN [resp |-> Some(invalid_domain(
             "API version 1.3 only supports device messages for batteries and charging stations.",
             <<ea.asset_id>>))]
    ELSE IF ea.event_type \notin {"soc", "soc-with-targets"}
    THEN [resp |-> Some(unrecognized_event_type(ea.event_type))]
    ELSE [resp |-> None, ea |-> ea, asset |-> Val(found)]

\* The loop over the events, from event i on.  `duration` is narrowed by every
\* event, `start` is that of the event before, planning_horizon stays as
\* computed from the requested duration.
RECURSIVE get_events(_, _, _, _, _, _, _, _, _, _)
get_events(events, i, duration, start, groups, trace, planning_horizon, table, queue, stored) ==
    IF i > Len(events)
    THEN [response |->
             IF Len(events) = 0 THEN raised("UnboundLocalError: start")
             ELSE [fn |-> "request_processed", msg |-> "", args |-> <<>>, detail |-> <<>>,
                   groups |-> groups, start |-> start, duration |-> duration, unit |-> "MW"],
          trace |-> trace]
    ELSE LET a == get_event_asset(events[i], table) IN
    IF IsSome(a.resp) THEN [response |-> Val(a.resp), trace |-> trace]
    ELSE LET found == schedule_start_of(events[i], a.ea, a.asset, queue) IN
    IF IsSome(found.resp) THEN [response |-> Val(found.resp), trace |-> trace]
    ELSE LET sch == schedule_of(found, duration, planning_horizon, a.ea.asset_id,
                                stored.power, stored.sources)
             step == [event |-> events[i], message |-> found.message,
                      schedule_start |-> found.schedule_start]
         IN
    IF IsSome(sch.resp) THEN [response |-> Val(sch.resp), trace |-> Append(trace, step)]
    ELSE get_events(events, i + 1, sch.duration, sch.start,
                    Append(groups, [event |-> events[i], values |-> sch.values]),
                    Append(trace, step),
                    planning_horizon, table, queue, stored)

\* The whole handler.  The response, and for every event that got that far
\* the start its schedule was looked up from.
get_device_message_response(events, duration, table, queue, stored) ==
    get_events(events, 1, duration, 0, <<>>, <<>>,
               planning_horizon_of(duration), table, queue, stored)

----------------------------------------------------------------------------
(* The requests of the ingestion handler.  A field the handler never reads *)
(* (one that follows the field it rejects) is left out of the form.        *)

Form(datetime, event, value, targets) ==
    [datetime |-> datetime, event |-> event, value |-> value, targets |-> targets]
Request(unit, form) == [unit |-> unit, form |-> form]
Target(value, datetime) == [value |-> value, datetime |-> datetime]

Aware(t) == Some(DatetimeStr("aware", t))
Naive(t) == Some(DatetimeStr("naive", t))
Garbled == Some(DatetimeStr("garbage", 0))

MaxEventTime == MaxEventStep * resolution
FormValues == {10}

\* A target every event of the model accepts, and the targets it rejects.
GoodTarget == Target(Some(20), Aware(BVP_PLANNING_HORIZON))
LateTarget == Target(Some(20),
                     Aware(MaxEventTime + BVP_PLANNING_HORIZON + resolution))
BadTargets ==
    {Target(None, Aware(BVP_PLANNING_HORIZON)),
     Target(Some(20), None),
     Target(Some(20), Garbled),
     Target(Some(20), Naive(BVP_PLANNING_HORIZON)),
     LateTarget}
\* Targets of an event at MaxEventTime: at the end of its schedule, at its
\* own datetime, before it, between two steps of the grid, and one at the
\* datetime of GoodTarget with another value.
EdgeTarget == Target(Some(20), Aware(MaxEventTime + BVP_PLANNING_HORIZON))
StartTarget == Target(Some(20), Aware(MaxEventTime))
PastTarget == Target(Some(20), Aware(0))
OffGridTarget == Target(Some(20), Aware(MaxEventTime + resolution + 5))
OtherTarget == Target(Some(30), Aware(BVP_PLANNING_HORIZON))
TargetLists ==
    {<<>>, <<GoodTarget>>} \cup {<<b>> : b \in BadTargets}
                           \cup {<<GoodTarget, b>> : b \in BadTargets}
    \cup {<<EdgeTarget>>, <<StartTarget>>, <<PastTarget>>, <<OffGridTarget>>,
          <<GoodTarget, OtherTarget>>, <<OtherTarget, GoodTarget>>}

LastEventStr(event_type) == EventStr(BatteryId, MaxEventId, event_type)

BadDatetimeForms ==
    {Form(d, None, None, None) : d \in {None, Garbled, Naive(0)}}
BadEvents ==
    {None, Some(GarbageEvent), Some(EventStr(BatteryId, 1, "ptu")),
     Some(EventStr(2, 1, "soc")), Some(EventStr(3, 1, "soc")), Some(EventStr(4, 1, "soc"))}
BadEventForms ==
    {Form(Aware(0), e, None, None) : e \in BadEvents}
\* Events of every datetime and id, to try the ordering of events.
OrderForms ==
    {Form(Aware(t), Some(EventStr(BatteryId, i, "soc")), v, None) :
        t \in EventTimes, i \in EventIds, v \in {None} \cup {Some(x) : x \in FormValues}}
\* Events of the last datetime and id, to try the value and the targets.
SocForms ==
    {Form(Aware(MaxEventTime), Some(LastEventStr("soc")), Some(x), g) :
        x \in FormValues, g \in {None, Some(<<GoodTarget>>)}}
TargetForms ==
    {Form(Aware(MaxEventTime), Some(LastEventStr("soc-with-targets")), v, None) :
        v \in {None} \cup {Some(x) : x \in FormValues}}
    \cup {Form(Aware(MaxEventTime), Some(LastEventStr("soc-with-targets")), Some(x), Some(l)) :
        x \in FormValues, l \in TargetLists}
AcceptableForms ==
    {Form(Aware(MaxEventTime), Some(LastEventStr("soc")), Some(x), None) : x \in FormValues}
    \cup {Form(Aware(MaxEventTime), Some(LastEventStr("soc-with-targets")), Some(x), Some(l)) :
            x \in FormValues, l \in {<<>>, <<GoodTarget>>}}

IngestRequests ==
    {Request("kWh", f) :
        f \in BadDatetimeForms \cup BadEventForms \cup OrderForms \cup SocForms \cup TargetForms}
    \cup {Request("MWh", f) : f \in AcceptableForms}

(* The requests of the retrieval handler: the events asked for, in the     *)
(* order of the groups of the request, and the duration.                   *)
GetRequest(events, duration) == [events |-> events, duration |-> duration]

Durations == {resolution, BVP_PLANNING_HORIZON, BVP_PLANNING_HORIZON + resolution}
BadGetEvents ==
    {GarbageEvent, EventStr(BatteryId, 1, "ptu"),
     EventStr(2, 1, "soc"), EventStr(3, 1, "soc"), EventStr(4, 1, "soc")}
GoodGetEvents ==
    {EventStr(BatteryId, i, "soc") : i \in EventIds} \cup {LastEventStr("soc-with-targets")}
GetRequests ==
    {GetRequest(<<e>>, BVP_PLANNING_HORIZON) : e \in BadGetEvents}
    \cup {GetRequest(<<e>>, d) : e \in GoodGetEvents, d \in Durations}

(* What the queue and its workers make of a job dispatched with start t.   *)
TimeoutError == [type |-> "TimeoutError", text |-> "worker exceeded 30s"]
ForecastingJob == [id |-> "forecasting-job", status |-> "started"]
Job(status, start, exception, dependency) ==
    [status |-> status, start |-> start, exception |-> exception, dependency |-> dependency]
JobStates(start) ==
    {Job(st, start, None, None) : st \in {"queued", "started", "finished", "scheduled"}}
    \cup {Job("failed", start, e, None) : e \in {None, Some(TimeoutError)}}
    \cup {Job("deferred", start, None, d) : d \in {None, Some(ForecastingJob)}}

\* The datetimes of the Power rows of the model, and the value the scheduler
\* writes at each.
PowerTimes == {k * resolution : k \in 0..PlanningSteps}
scheduled_value(t) == (t \div resolution) + 1


----------------------------------------------------------------------------
(* Actions.  A handler is called when no call is being answered, runs as   *)
(* one step and leaves its call in `last`; Return hands the response over. *)
(* The queue, its workers and the scheduler move between calls.            *)

NoCall == [op |-> "none"]
Idle == last = NoCall

Init ==
    /\ mode \in Modes
    /\ assets = InitAssets
    /\ jobs = EmptyMap
    /\ power = EmptyMap
    /\ sources = {}
    /\ last = NoCall
    /\ accepted = {}
    /\ latest = None
    /\ inflight = <<>>

PostCall(request, before, response, calls) ==
    [op |-> "post_udi_event", unit |-> request.unit, form |-> request.form,
     before |-> before, response |-> response, calls |-> calls]

GetCall(request, response, trace) ==
    [op |-> "get_device_message", events |-> request.events, duration |-> request.duration,
     response |-> response, trace |-> trace]

\* The queue of the model holds the job of one event at a time: an event is
\* dispatched when the queue is empty or holds the job of that same event.
QueueHasRoom(id) == DOMAIN jobs \subseteq {id}

\* The outcomes of the dispatch a request leads to: none when it is rejected.
DispatchOutcomes(request) ==
    IF IsSome(post_validate(request.unit, request.form, assets, mode).resp)
    THEN {TRUE} ELSE BOOLEAN

\* One call of post_udi_event_response.
PostUdiEvent(requests) ==
    /\ Idle
    /\ \E request \in requests :
        \E dispatched \in DispatchOutcomes(request) :
            LET r == post_udi_event_response(request.unit, request.form,
                                             assets, jobs, mode, dispatched)
            IN
            /\ \A i \in 1..Len(r.calls) : QueueHasRoom(r.calls[i].udi_event_ea)
            /\ assets' = r.assets
            /\ jobs' = r.jobs
            /\ last' = PostCall(request, assets, r.response, r.calls)
            /\ accepted' = IF r.response.fn = "request_processed"
                           THEN accepted \cup {r.calls[1].udi_event_ea}
                           ELSE accepted
            /\ latest' = IF r.response.fn = "request_processed"
                         THEN Some([event |-> r.calls[1].udi_event_ea,
                                    datetime |-> r.calls[1].start])
                         ELSE latest
            /\ UNCHANGED <<mode, power, sources, inflight>>

\* Variant of GetDeviceMessage with a slip: the job of the first event asked
\* for is deleted from the queue once it has been fetched.
GetDeviceMessage_deleting_job(requests) ==
    /\ Idle
    /\ \E request \in requests :
            LET r == get_device_message_response(
                         request.events, request.duration, assets, jobs,
                         [power |-> power, sources |-> sources])
            IN
            /\ last' = GetCall(request, r.response, r.trace)
            /\ jobs' = [k \in DOMAIN jobs \ {request.events[1]} |-> jobs[k]]
            /\ UNCHANGED <<mode, assets, power, sources, accepted, latest, inflight>>

\* One call of get_device_message_response.
GetDeviceMessage(requests) ==
    /\ Idle
    /\ \E request \in requests :
            LET r == get_device_message_response(
                         request.events, request.duration, assets, jobs,
                         [power |-> power, sources |-> sources])
            IN
            /\ last' = GetCall(request, r.response, r.trace)
            /\ UNCHANGED <<mode, assets, jobs, power, sources, accepted, latest, inflight>>

\* The response goes to the client.
Return ==
    /\ ~Idle
    /\ last' = NoCall
    /\ UNCHANGED <<mode, assets, jobs, power, sources, accepted, latest, inflight>>

\* A job leaves the queue (its result expired, or it was removed).
JobExpire ==
    /\ Idle
    /\ \E id \in DOMAIN jobs :
        /\ jobs' = [k \in DOMAIN jobs \ {id} |-> jobs[k]]
        /\ UNCHANGED <<mode, assets, power, sources, last, accepted, latest, inflight>>

\* The queue or a worker changes the state of a job.
JobMoves ==
    /\ Idle
    /\ \E id \in DOMAIN jobs :
        \E next \in JobStates(jobs[id].start) \ {jobs[id]} :
            /\ jobs' = [jobs EXCEPT ![id] = next]
            /\ UNCHANGED <<mode, assets, power, sources, last, accepted, latest, inflight>>

\* The scheduler's data source is registered.
RegisterSource ==
    /\ Idle
    /\ scheduler_label \notin sources
    /\ sources' = sources \cup {scheduler_label}
    /\ UNCHANGED <<mode, assets, jobs, power, last, accepted, latest, inflight>>

\* The scheduler saves a Power row of the battery; a row refers to its source.
PowerWrite ==
    /\ Idle
    /\ scheduler_label \in sources
    /\ \E t \in PowerTimes \ DOMAIN power :
        /\ power' = [x \in DOMAIN power \cup {t} |->
                        IF x = t THEN scheduled_value(t) ELSE power[x]]
        /\ UNCHANGED <<mode, assets, jobs, sources, last, accepted, latest, inflight>>

\* Submissions neither read nor write Power rows: the model takes them
\* before the scheduler saves rows, which reaches the same stores.
Submit == power = EmptyMap /\ PostUdiEvent(IngestRequests)
Retrieve == GetDeviceMessage(GetRequests)
Next ==
    \/ Submit
    \/ Retrieve
    \/ Return
    \/ JobExpire
    \/ JobMoves
    \/ RegisterSource
    \/ PowerWrite
Spec == Init /\ [][Next]_vars

----------------------------------------------------------------------------
(* Submissions to the battery handled side by side, unless on play, by     *)
(* workers that share the asset table and the queue.  Each runs the        *)
(* handler in four steps: it reads the asset, validates the submission     *)
(* against the asset it has read, dispatches, and writes the asset, the    *)
(* three fields at once.                                                   *)

Workers == 1..MaxConcurrent

\* The asset tables a run can start from: the battery without a last event,
\* or with one accepted before.
KnownAssets ==
    {InitAssets} \cup
    {[InitAssets EXCEPT ![BatteryId] =
         [@ EXCEPT !.soc_datetime = Some(t), !.soc_udi_event_id = Some(i),
                   !.soc_in_mwh = Some(x)]] :
        t \in EventTimes, i \in EventIds, x \in FormValues}

ConcurrentRequests ==
    {Request("kWh", Form(Aware(t), Some(EventStr(BatteryId, i, "soc")), Some(x), None)) :
        t \in EventTimes, i \in EventIds, x \in FormValues}

Arrived(request) ==
    [pc |-> "read", request |-> request, seen |-> None, plan |-> None, response |-> None]

InitConcurrent ==
    /\ mode = "production"
    /\ assets \in KnownAssets
    /\ jobs = EmptyMap
    /\ power = EmptyMap
    /\ sources = {}
    /\ last = NoCall
    /\ accepted = {}
    /\ latest = None
    /\ inflight \in [Workers -> {Arrived(r) : r \in ConcurrentRequests}]

\* Line 214: asset = Asset.query.filter_by(id=asset_id).one_or_none()
ReadDevice(w) ==
    /\ inflight[w].pc = "read"
    /\ inflight' = [inflight EXCEPT ![w] = [@ EXCEPT !.pc = "validate", !.seen = Some(assets)]]
    /\ UNCHANGED <<mode, assets, jobs, power, sources, last, accepted, latest>>

\* Lines 224-302, on the asset read at line 214.
ValidateOrdering(w) ==
    /\ inflight[w].pc = "validate"
    /\ LET v == post_validate(inflight[w].request.unit, inflight[w].request.form,
                              Val(inflight[w].seen), mode)
       IN inflight' = [inflight EXCEPT ![w] =
              IF IsSome(v.resp)
              THEN [@ EXCEPT !.pc = "done", !.response = v.resp]
              ELSE [@ EXCEPT !.pc = "dispatch", !.plan = v.plan]]
    /\ UNCHANGED <<mode, assets, jobs, power, sources, last, accepted, latest>>

\* Lines 304-314: create_scheduling_job returns or raises.
Dispatch(w) ==
    /\ inflight[w].pc = "dispatch"
    /\ \E dispatched \in BOOLEAN :
        IF dispatched
        THEN /\ jobs' = create_scheduling_job(jobs, Val(inflight[w].plan).call)
             /\ inflight' = [inflight EXCEPT ![w] = [@ EXCEPT !.pc = "write"]]
        ELSE /\ jobs' = jobs
             /\ inflight' = [inflight EXCEPT ![w] =
                    [@ EXCEPT !.pc = "done",
                              !.response = Some(raised("create_scheduling_job"))]]
    /\ UNCHANGED <<mode, assets, power, sources, last, accepted, latest>>

\* Lines 316-321: store new soc in asset, and return.
WriteDevice(w) ==
    /\ inflight[w].pc = "write"
    /\ assets' = store_soc(assets, Val(inflight[w].plan), TRUE)
    /\ accepted' = accepted \cup {Val(inflight[w].plan).call.udi_event_ea}
    /\ latest' = Some([event |-> Val(inflight[w].plan).call.udi_event_ea,
                       datetime |-> Val(inflight[w].plan).call.start])
    /\ inflight' = [inflight EXCEPT ![w] =
           [@ EXCEPT !.pc = "done", !.response = Some(request_processed)]]
    /\ UNCHANGED <<mode, jobs, power, sources, last>>

Reads == \E w \in Workers : ReadDevice(w)
Validates == \E w \in Workers : ValidateOrdering(w)
Dispatches == \E w \in Workers : Dispatch(w)
Writes == \E w \in Workers : WriteDevice(w)
NextConcurrent ==
    \/ Reads
    \/ Validates
    \/ Dispatches
    \/ Writes
SpecConcurrent == InitConcurrent /\ [][NextConcurrent]_vars

----------------------------------------------------------------------------
(* Retrievals that name several events.  The handler only reads, so the    *)
(* stores are drawn from those a run of submissions leaves: the events     *)
(* 1 .. MaxEventId accepted in that order, each with its job finished,     *)
(* queued or gone from the queue, and any of the scheduler's rows saved.   *)

SeveralEvents == {EventStr(BatteryId, i, "soc") : i \in EventIds}
EventStart(i) == Min(i - 1, MaxEventStep) * resolution

AssetsAfterEvents ==
    [InitAssets EXCEPT ![BatteryId] =
        [@ EXCEPT !.soc_datetime = Some(EventStart(MaxEventId)),
                  !.soc_udi_event_id = Some(MaxEventId),
                  !.soc_in_mwh = Some(10)]]
JobsAfterEvents ==
    UNION {{[e \in S |-> Job(st[e], EventStart(e.event_id), None, None)] :
                st \in [S -> {"finished", "queued"}]} :
           S \in SUBSET SeveralEvents}
RowsSaved ==
    {[t \in T |-> scheduled_value(t)] : T \in SUBSET PowerTimes}

EventLists ==
    LET named == SeveralEvents \cup {EventStr(2, 1, "soc")} IN
    {<<e>> : e \in named} \cup {<<e, f>> : e \in named, f \in named}
SeveralRequests ==
    {GetRequest(es, d) : es \in EventLists, d \in Durations}

InitRetrieval ==
    /\ mode = "production"
    /\ assets = AssetsAfterEvents
    /\ jobs \in JobsAfterEvents
    /\ power \in RowsSaved
    /\ sources = {scheduler_label}
    /\ last = NoCall
    /\ accepted = SeveralEvents
    /\ latest = Some([event |-> EventStr(BatteryId, MaxEventId, "soc"),
                      datetime |-> EventStart(MaxEventId)])
    /\ inflight = <<>>

RetrieveSeveral == GetDeviceMessage(SeveralRequests)
NextRetrieval ==
    \/ RetrieveSeveral
    \/ Return
SpecRetrieval == InitRetrieval /\ [][NextRetrieval]_vars

----------------------------------------------------------------------------
(* Vocabulary of the properties *)

Battery == assets[BatteryId]
IsPost == last.op = "post_udi_event"
PostAccepted == IsPost /\ last.response.fn = "request_processed"
PostRaised == IsPost /\ last.response.fn = "raised"
PostRejected == IsPost /\ last.response.fn \notin {"request_processed", "raised"}

\* The submission is well-formed up to the ordering of events: a parsable
\* datetime with an offset, a valid reference of type soc or soc-with-targets,
\* an accessible battery or charging station.
WellFormedPost ==
    /\ IsPost
    /\ IsSome(last.form.datetime)
    /\ IsSome(parse_isodate_str(Val(last.form.datetime)))
    /\ Val(parse_isodate_str(Val(last.form.datetime))).tzinfo
    /\ IsSome(last.form.event)
    /\ Val(last.form.event).valid
    /\ Val(last.form.event).event_type \in {"soc", "soc-with-targets"}
    /\ Val(last.form.event).asset_id \in DOMAIN last.before
    /\ last.before[Val(last.form.event).asset_id].accessible
    /\ last.before[Val(last.form.event).asset_id].asset_type_name
          \in {"battery", "charging_station"}

SubmittedDatetime == Val(last.form.datetime).t
SubmittedEventId == Val(last.form.event).event_id
DeviceBefore == last.before[Val(last.form.event).asset_id]
DeviceAfter == assets[Val(last.form.event).asset_id]

StaleDatetime(resp) ==
    /\ resp.fn = "invalid_datetime"
    /\ resp.msg = "The date of the requested UDI event is earlier than the latest known date."
OutdatedEventId(resp) == resp.fn = "outdated_event_id"

\* a <= b for optional values, an unset value being below every set one
OptLeq(a, b) == ~IsSome(a) \/ (IsSome(b) /\ Val(a) <= Val(b))

----------------------------------------------------------------------------
(* C1: unless on play, no step lowers the battery's soc_udi_event_id or its *)
(* soc_datetime, and a step that ends a call with anything but             *)
(* request_processed leaves both as they were.                             *)
C1_NeverDecrease ==
    [][mode # "play" =>
          /\ OptLeq(Battery.soc_udi_event_id, Battery'.soc_udi_event_id)
          /\ OptLeq(Battery.soc_datetime, Battery'.soc_datetime)
          /\ (last'.op = "post_udi_event" /\ last'.response.fn # "request_processed")
                => /\ Battery'.soc_udi_event_id = Battery.soc_udi_event_id
                   /\ Battery'.soc_datetime = Battery.soc_datetime]_vars

C1_Witness ==
    /\ mode # "play"
    /\ PostAccepted
    /\ IsSome(DeviceBefore.soc_udi_event_id)
    /\ Val(DeviceAfter.soc_udi_event_id) > Val(DeviceBefore.soc_udi_event_id)
    /\ Val(DeviceAfter.soc_datetime) > Val(DeviceBefore.soc_datetime)

(* C2 as stated: unless on play, a well-formed submission whose event id is *)
(* at most the device's soc_udi_event_id is answered outdated_event_id,    *)
(* whatever its datetime.                                                  *)
C2_AlwaysOutdated ==
    (mode # "play" /\ WellFormedPost /\ IsSome(DeviceBefore.soc_udi_event_id)
        /\ SubmittedEventId <= Val(DeviceBefore.soc_udi_event_id))
    => OutdatedEventId(last.response)

(* C2 amended: such a submission is always rejected, with outdated_event_id *)
(* when its datetime is not earlier than the device's soc_datetime, and    *)
(* with the stale-datetime error when it is earlier.                       *)
C2_OutdatedUnlessStale ==
    (mode # "play" /\ WellFormedPost /\ IsSome(DeviceBefore.soc_udi_event_id)
        /\ SubmittedEventId <= Val(DeviceBefore.soc_udi_event_id))
    => IF IsSome(DeviceBefore.soc_datetime)
            /\ SubmittedDatetime < Val(DeviceBefore.soc_datetime)
       THEN StaleDatetime(last.response)
       ELSE OutdatedEventId(last.response)

C2_Witness ==
    /\ mode # "play"
    /\ WellFormedPost
    /\ IsSome(DeviceBefore.soc_udi_event_id)
    /\ SubmittedEventId = Val(DeviceBefore.soc_udi_event_id)
    /\ SubmittedDatetime > Val(DeviceBefore.soc_datetime)
    /\ OutdatedEventId(last.response)

(* C3: unless on play, a well-formed submission whose datetime is earlier   *)
(* than the device's soc_datetime is answered with the stale-datetime      *)
(* error, whatever its event id; one whose datetime equals soc_datetime is *)
(* not.                                                                    *)
C3_StaleRejected ==
    (mode # "play" /\ WellFormedPost /\ IsSome(DeviceBefore.soc_datetime))
    => /\ SubmittedDatetime < Val(DeviceBefore.soc_datetime)
            => StaleDatetime(last.response)
       /\ SubmittedDatetime = Val(DeviceBefore.soc_datetime)
            => ~StaleDatetime(last.response)

C3_Witness ==
    /\ mode # "play"
    /\ WellFormedPost
    /\ IsSome(DeviceBefore.soc_datetime)
    /\ SubmittedDatetime < Val(DeviceBefore.soc_datetime)
    /\ SubmittedEventId > Val(DeviceBefore.soc_udi_event_id)
    /\ StaleDatetime(last.response)

(* C4: a step that ends a call of post_udi_event_response with an error     *)
(* response changes neither the asset table nor the queue, and the call    *)
(* has dispatched nothing.                                                 *)
C4_RejectionChangesNothing ==
    [][(last' # last /\ last'.op = "post_udi_event"
          /\ last'.response.fn \notin {"request_processed", "raised"})
       => /\ assets' = assets
          /\ jobs' = jobs
          /\ last'.calls = <<>>
          /\ last'.before = assets]_vars

C4_Witness ==
    /\ PostRejected
    /\ WellFormedPost
    /\ IsSome(DeviceBefore.soc_udi_event_id)
    /\ IsSome(last.form.targets)
    /\ Val(last.form.targets) = <<GoodTarget, LateTarget>>
    /\ last.response.msg = "Target datetime exceeds end of schedule."
    /\ assets = last.before

(* C5: a step changes the asset table only by a call whose dispatch has     *)
(* returned, and then the queue holds the job of that event, queued, with  *)
(* the start the asset now has as soc_datetime; a call whose dispatch      *)
(* raises leaves the asset table as it was.                                *)
C5_StoredOnlyAfterDispatch ==
    [][/\ assets' # assets
          => /\ last'.op = "post_udi_event"
             /\ last'.response.fn = "request_processed"
             /\ Len(last'.calls) = 1
             /\ last'.calls[1].udi_event_ea \in DOMAIN jobs'
             /\ jobs'[last'.calls[1].udi_event_ea].status = "queued"
             /\ Some(jobs'[last'.calls[1].udi_event_ea].start) = Battery'.soc_datetime
             /\ Some(last'.calls[1].udi_event_ea.event_id) = Battery'.soc_udi_event_id
       /\ (last' # last /\ last'.op = "post_udi_event" /\ last'.response.fn = "raised")
          => assets' = assets /\ jobs' = jobs]_vars

C5_Witness ==
    /\ PostRaised
    /\ Len(last.calls) = 1
    /\ IsSome(DeviceBefore.soc_udi_event_id)
    /\ DeviceAfter = DeviceBefore
    /\ DeviceAfter.soc_udi_event_id # Some(SubmittedEventId)

(* C6: an accepted submission has made exactly one call of                  *)
(* create_scheduling_job, with the raw event string as udi_event_ea, the   *)
(* window from the event datetime to that plus the planning horizon, and   *)
(* soc_at_start the value in MWh (a kWh value divided by 1000); the asset  *)
(* then holds exactly that datetime, event id and soc.                     *)
SubmittedSoc ==
    IF last.unit = "kWh" THEN Val(last.form.value) ELSE Val(last.form.value) * 1000

C6_AcceptedDispatchesAndStores ==
    PostAccepted =>
        /\ Len(last.calls) = 1
        /\ last.calls[1].udi_event_ea = Val(last.form.event)
        /\ last.calls[1].asset_id = Val(last.form.event).asset_id
        /\ last.calls[1].start = SubmittedDatetime
        /\ last.calls[1].end = SubmittedDatetime + BVP_PLANNING_HORIZON
        /\ last.calls[1].soc_at_start = SubmittedSoc
        /\ DeviceAfter.soc_datetime = Some(SubmittedDatetime)
        /\ DeviceAfter.soc_udi_event_id = Some(SubmittedEventId)
        /\ DeviceAfter.soc_in_mwh = Some(SubmittedSoc)

C6_Witness ==
    /\ PostAccepted
    /\ last.unit = "kWh"
    /\ last.form.value = Some(10)
    /\ DeviceBefore.soc_udi_event_id = Some(MaxEventId - 1)
    /\ DeviceBefore.soc_datetime = Some(MaxEventTime - resolution)
    /\ DeviceAfter.soc_udi_event_id = Some(MaxEventId)
    /\ DeviceAfter.soc_datetime = Some(MaxEventTime)
    /\ DeviceAfter.soc_in_mwh = Some(10)
    /\ Len(last.calls) = 1

----------------------------------------------------------------------------
(* Vocabulary of the properties of retrieval.  While a call is in `last`   *)
(* the stores are those the handler has read: only Return can follow.      *)

IsGet == last.op = "get_device_message"
ScheduleReturned == IsGet /\ last.response.fn = "request_processed"
Requested(i) == last.events[i]
HasJob(event) == event \in DOMAIN jobs

\* The event passes the checks of its address, asset and type.
RetrievableEvent(event) ==
    /\ event.valid
    /\ event.asset_id \in DOMAIN assets
    /\ assets[event.asset_id].accessible
    /\ assets[event.asset_id].asset_type_name \in {"battery", "charging_station"}
    /\ event.event_type \in {"soc", "soc-with-targets"}

NotReadyStates == {"queued", "started", "deferred", "scheduled"}
ScheduleNotReady(resp, job) ==
    /\ resp.fn = "unknown_schedule"
    /\ job.status = "started" => resp.msg = "Scheduling job in progress."
    /\ job.status = "queued" => resp.msg = "Scheduling job waiting to be processed."
    /\ job.status = "scheduled" => resp.msg = "Scheduling job has an unknown status."
    /\ (job.status = "deferred" /\ IsSome(job.dependency))
          => /\ resp.msg = "Scheduling job waiting for job to be processed."
             /\ resp.detail = <<Val(job.dependency).status, Val(job.dependency).id>>
    /\ (job.status = "deferred" /\ ~IsSome(job.dependency))
          => resp.msg = "Scheduling job waiting for unknown job to be processed."
SchedulingFailed(resp) ==
    resp.fn = "unknown_schedule" /\ resp.msg = "Scheduling job failed with"

C8_FallbackOnlyWithoutJob ==
    (IsGet /\ RetrievableEvent(Requested(1))) =>
        LET e == Requested(1)
            asset == assets[e.asset_id]
        IN
        /\ (~HasJob(e) /\ asset.soc_udi_event_id = Some(e.event_id))
              => /\ Len(last.trace) >= 1
                 /\ last.trace[1].event = e
                 /\ last.trace[1].message = MostRecentEvent
                 /\ Some(last.trace[1].schedule_start) = asset.soc_datetime
        /\ (~HasJob(e) /\ asset.soc_udi_event_id # Some(e.event_id))
              => /\ last.response = unrecognized_event(e.event_id, e.event_type)
                 /\ last.trace = <<>>
        /\ HasJob(e)
              => \/ last.trace = <<>>
                 \/ /\ last.trace[1].message = JobProcessed
                    /\ last.trace[1].schedule_start = jobs[e].start
                    /\ jobs[e].status = "finished"

C8_Witness ==
    /\ ScheduleReturned
    /\ ~HasJob(Requested(1))
    /\ Battery.soc_udi_event_id = Some(Requested(1).event_id)
    /\ last.trace[1].message = MostRecentEvent
    /\ last.response.start = Val(Battery.soc_datetime)

(* C9: a retrieval whose first event has a failed job returns no schedule   *)
(* but unknown_schedule with the failure message, which differs from the   *)
(* messages of jobs not ready, and carries the exception stored with the   *)
(* job, or the default text when none is stored.                           *)
C9_FailedJobReported ==
    (IsGet /\ HasJob(Requested(1)) /\ jobs[Requested(1)].status = "failed") =>
        LET job == jobs[Requested(1)] IN
        /\ SchedulingFailed(last.response)
        /\ \A st \in NotReadyStates, d \in {None, Some(ForecastingJob)} :
              ~ScheduleNotReady(last.response, Job(st, job.start, None, d))
        /\ last.trace = <<>>
        /\ IsSome(job.exception)
              => last.response.detail = <<Val(job.exception).type, Val(job.exception).text>>
        /\ ~IsSome(job.exception)
              => last.response.detail =
                    <<"Exception", "The job does not state why it failed.">>

C9_Witness ==
    /\ IsGet
    /\ HasJob(Requested(1))
    /\ jobs[Requested(1)].status = "failed"
    /\ last.response.detail = <<"TimeoutError", "worker exceeded 30s">>
    /\ jobs[Requested(1)].start \in DOMAIN power

(* C10 as stated: a retrieval of one event that returns a schedule starts   *)
(* it at the earliest row in [anchor, anchor + requested duration) and     *)
(* gives it the duration min(requested, last row + 15 min - start), the    *)
(* last row being that of the same window.                                 *)
SetMax(S) == CHOOSE x \in S : \A y \in S : x >= y
StoredIn(from, length) == {t \in DOMAIN power : t >= from /\ t < from + length}

C10_WindowOfRequestedDuration ==
    (ScheduleReturned /\ Len(last.events) = 1) =>
        LET rows == StoredIn(last.trace[1].schedule_start, last.duration) IN
        /\ last.response.start = SetMin(rows)
        /\ last.response.duration =
              Min(last.duration, SetMax(rows) + resolution - last.response.start)

(* C10 amended: the rows are those in [anchor, anchor + min(requested       *)
(* duration, planning horizon)); the start is the earliest of them and the *)
(* duration is min(requested, last of them + 15 min - start), so it is at  *)
(* most the requested duration and at most the span of the rows.           *)
C10_WindowOfPlanningHorizon ==
    (ScheduleReturned /\ Len(last.events) = 1) =>
        LET rows == StoredIn(last.trace[1].schedule_start,
                             Min(last.duration, BVP_PLANNING_HORIZON))
        IN
        /\ rows # {}
        /\ last.response.start = SetMin(rows)
        /\ last.response.duration =
              Min(last.duration, SetMax(rows) + resolution - last.response.start)
        /\ last.response.duration <= last.duration
        /\ last.response.duration <= SetMax(rows) + resolution - SetMin(rows)

C10_Witness ==
    /\ ScheduleReturned
    /\ Len(last.events) = 1
    /\ HasJob(Requested(1))
    /\ jobs[Requested(1)].status = "finished"
    /\ last.duration = BVP_PLANNING_HORIZON
    /\ last.response.start = jobs[Requested(1)].start
    /\ last.response.duration = BVP_PLANNING_HORIZON - resolution
    /\ Len(last.response.groups[1].values) = PlanningSteps - 1

(* C11 as stated: a retrieval of one event with a finished job that returns *)
(* a schedule returns one value for every 15 minutes of the returned       *)
(* duration, the values being those of consecutive 15-minute steps from    *)
(* the returned start, whatever rows the store holds.                      *)
ReturnedTimes ==
    {t \in DOMAIN power :
        /\ t >= last.response.start
        /\ t < last.response.start + last.response.duration}

C11_SeriesContiguous ==
    (/\ ScheduleReturned
     /\ Len(last.events) = 1
     /\ HasJob(Requested(1))
     /\ jobs[Requested(1)].status = "finished")
    => /\ Len(last.response.groups[1].values) * resolution = last.response.duration
       /\ \A t \in ReturnedTimes :
             t = last.response.start \/ (t - resolution) \in ReturnedTimes

(* C12: a call of get_device_message_response changes no asset, no job, no  *)
(* Power row and no data source, and the same request made again on the    *)
(* stores the call has left gets the same response: the same error, or the *)
(* same values, start and duration.                                        *)
RetrievedAgain ==
    get_device_message_response(last.events, last.duration, assets, jobs,
                                [power |-> power, sources |-> sources])

C12_RetrievalReadOnly ==
    /\ [](IsGet => /\ RetrievedAgain.response = last.response
                   /\ RetrievedAgain.trace = last.trace)
    /\ [][last'.op = "get_device_message"
             => UNCHANGED <<mode, assets, jobs, power, sources>>]_vars

C12_Witness ==
    /\ ScheduleReturned
    /\ HasJob(Requested(1))
    /\ jobs[Requested(1)].status = "finished"
    /\ RetrievedAgain.response = last.response
    /\ Len(last.response.groups[1].values) = PlanningSteps

----------------------------------------------------------------------------
(* Vocabulary of the properties of the targets of a submission. *)

\* The submission passes the ordering of events, or the mode is play.
InOrder ==
    \/ mode = "play"
    \/ /\ OptLeq(DeviceBefore.soc_datetime, Some(SubmittedDatetime))
       /\ ~IsSome(DeviceBefore.soc_udi_event_id)
             \/ Val(DeviceBefore.soc_udi_event_id) < SubmittedEventId

\* A submission of type soc-with-targets that is valid up to its targets.
TargetsPost ==
    /\ WellFormedPost
    /\ InOrder
    /\ IsSome(last.form.value)
    /\ Val(last.form.event).event_type = "soc-with-targets"
    /\ IsSome(last.form.targets)

SubmittedTargets == Val(last.form.targets)
EndOfSchedule == SubmittedDatetime + BVP_PLANNING_HORIZON
WellFormedTarget(g) ==
    /\ IsSome(g.value)
    /\ IsSome(g.datetime)
    /\ Val(g.datetime).kind = "aware"
TargetInstant(g) == Val(g.datetime).t
Dispatched == last.calls[1]

(* C13: in a soc-with-targets submission that is valid up to its targets,   *)
(* targets that are well-formed and at or before datetime + planning       *)
(* horizon do not make it rejected, and one exactly at datetime + planning *)
(* horizon is set in the series handed to create_scheduling_job; a         *)
(* well-formed target 15 minutes later, after such targets, makes the      *)
(* response invalid_datetime with nothing dispatched.                      *)
C13_HorizonInclusive ==
    TargetsPost =>
        /\ (/\ \A i \in 1..Len(SubmittedTargets) :
                  /\ WellFormedTarget(SubmittedTargets[i])
                  /\ TargetInstant(SubmittedTargets[i]) <= EndOfSchedule
            /\ \E i \in 1..Len(SubmittedTargets) :
                  TargetInstant(SubmittedTargets[i]) = EndOfSchedule)
           => /\ ~PostRejected
              /\ Len(last.calls) = 1
              /\ EndOfSchedule \in DOMAIN Dispatched.soc_targets
              /\ IsSome(Dispatched.soc_targets[EndOfSchedule])
        /\ (\E i \in 1..Len(SubmittedTargets) :
               /\ WellFormedTarget(SubmittedTargets[i])
               /\ TargetInstant(SubmittedTargets[i]) = EndOfSchedule + resolution
               /\ \A j \in 1..(i - 1) :
                     /\ WellFormedTarget(SubmittedTargets[j])
                     /\ TargetInstant(SubmittedTargets[j]) <= EndOfSchedule)
           => /\ last.response.fn = "invalid_datetime"
              /\ last.response.msg = "Target datetime exceeds end of schedule."
              /\ last.calls = <<>>

C13_Witness ==
    /\ TargetsPost
    /\ PostAccepted
    /\ SubmittedTargets = <<EdgeTarget>>
    /\ Dispatched.soc_targets[EndOfSchedule] = Some(20)
    /\ Dispatched.udi_event_ea \in DOMAIN jobs

(* C14 as stated: the series handed to create_scheduling_job has no key     *)
(* outside (datetime, datetime + planning horizon], and a soc-with-targets *)
(* submission, valid up to its targets, with a well-formed target at or    *)
(* before its datetime or after datetime + planning horizon, is rejected   *)
(* with nothing dispatched.                                                *)
InWindow(t) == t > SubmittedDatetime /\ t <= EndOfSchedule

C14_TargetsWithinWindow ==
    /\ (IsPost /\ last.calls # <<>>)
          => \A t \in DOMAIN Dispatched.soc_targets : InWindow(t)
    /\ (/\ TargetsPost
        /\ \A i \in 1..Len(SubmittedTargets) : WellFormedTarget(SubmittedTargets[i])
        /\ \E i \in 1..Len(SubmittedTargets) : ~InWindow(TargetInstant(SubmittedTargets[i])))
          => PostRejected /\ last.calls = <<>>

\* The part of C14 that holds: no target after datetime + planning horizon
\* is dispatched.
C14_NoTargetAfterHorizon ==
    (IsPost /\ last.calls # <<>>)
        => \A t \in DOMAIN Dispatched.soc_targets : t <= EndOfSchedule

----------------------------------------------------------------------------
\* The value and the targets of the submission pass their checks.
ValidPayload ==
    /\ IsSome(last.form.value)
    /\ Val(last.form.event).event_type = "soc-with-targets"
          => /\ IsSome(last.form.targets)
             /\ \A i \in 1..Len(SubmittedTargets) :
                   /\ WellFormedTarget(SubmittedTargets[i])
                   /\ TargetInstant(SubmittedTargets[i]) <= EndOfSchedule

(* C15: on play, a submission that passes the checks of its datetime, its   *)
(* event, its asset, its value and its targets is not rejected, whatever   *)
(* the asset's soc_datetime and soc_udi_event_id are: the job is           *)
(* dispatched and, the dispatch having returned, the asset holds the       *)
(* submitted datetime, event id and soc; a submission that fails one of    *)
(* those checks is rejected on play too.                                   *)
C15_PlaySkipsOrdering ==
    (mode = "play" /\ IsPost) =>
        IF WellFormedPost /\ ValidPayload
        THEN /\ ~PostRejected
             /\ Len(last.calls) = 1
             /\ PostAccepted
                   => /\ Dispatched.udi_event_ea \in DOMAIN jobs
                      /\ DeviceAfter.soc_datetime = Some(SubmittedDatetime)
                      /\ DeviceAfter.soc_udi_event_id = Some(SubmittedEventId)
                      /\ DeviceAfter.soc_in_mwh = Some(SubmittedSoc)
        ELSE PostRejected /\ last.calls = <<>>

C15_Witness ==
    /\ mode = "play"
    /\ PostAccepted
    /\ DeviceBefore.soc_udi_event_id = Some(MaxEventId)
    /\ DeviceBefore.soc_datetime = Some(MaxEventTime)
    /\ DeviceAfter.soc_udi_event_id = Some(1)
    /\ DeviceAfter.soc_datetime = Some(0)
    /\ Dispatched.udi_event_ea \in DOMAIN jobs

----------------------------------------------------------------------------
\* A submitted quantity in thousandths of a MWh.
SubmittedMWh(v) == IF last.unit = "kWh" THEN v ELSE v * 1000

\* The 15-minute grid of the schedule of the submitted event, its start left
\* out and its end included.
TargetGrid ==
    {SubmittedDatetime + k * resolution : k \in 1..PlanningSteps}

\* The targets of the submission at instant t, by their place in the list.
TargetsAt(t) ==
    {i \in 1..Len(SubmittedTargets) : TargetInstant(SubmittedTargets[i]) = t}
LastOf(S) == CHOOSE i \in S : \A j \in S : j <= i

(* C16: the series handed to create_scheduling_job holds every step of the  *)
(* grid; for an event of type soc every value of it is undefined, with or  *)
(* without a targets field in the request; for soc-with-targets it is      *)
(* defined exactly at the datetimes of the targets, each at its own        *)
(* datetime, on the grid or not, with the value in MWh of the last target  *)
(* of the list that has that datetime.                                     *)
C16_SeriesHoldsTargetsOnly ==
    (IsPost /\ last.calls # <<>>) =>
        LET series == Dispatched.soc_targets IN
        /\ TargetGrid \subseteq DOMAIN series
        /\ Val(last.form.event).event_type = "soc"
              => /\ DOMAIN series = TargetGrid
                 /\ \A t \in DOMAIN series : series[t] = None
        /\ Val(last.form.event).event_type = "soc-with-targets"
              => /\ \A i \in 1..Len(SubmittedTargets) :
                       TargetInstant(SubmittedTargets[i]) \in DOMAIN series
                 /\ \A t \in DOMAIN series :
                       IF TargetsAt(t) = {} THEN series[t] = None
                       ELSE series[t] =
                              Some(SubmittedMWh(Val(SubmittedTargets[LastOf(TargetsAt(t))].value)))

C16_Witness ==
    /\ PostAccepted
    /\ Val(last.form.event).event_type = "soc-with-targets"
    /\ SubmittedTargets = <<GoodTarget, OtherTarget>>
    /\ Dispatched.soc_targets[BVP_PLANNING_HORIZON] = Some(30)
    /\ \A t \in TargetGrid \ {BVP_PLANNING_HORIZON} : Dispatched.soc_targets[t] = None

----------------------------------------------------------------------------
(* C17: unless on play, no step accepts a submission whose asset and event  *)
(* id have been accepted before, and a step that answers a submission of   *)
(* such an event, whatever has become of its job, rejects it, changes      *)
(* neither the queue nor the asset table and dispatches nothing.           *)
Resubmitted(call) ==
    /\ call.op = "post_udi_event"
    /\ IsSome(call.form.event)
    /\ \E e \in accepted :
          /\ e.asset_id = Val(call.form.event).asset_id
          /\ e.event_id = Val(call.form.event).event_id

C17_AcceptedAtMostOnce ==
    [][(mode # "play" /\ last' # last /\ Resubmitted(last'))
       => /\ last'.response.fn \notin {"request_processed", "raised"}
          /\ last'.calls = <<>>
          /\ jobs' = jobs
          /\ assets' = assets
          /\ accepted' = accepted]_vars

\* An accepted event is submitted again after its job has left the queue.
C17_Witness ==
    /\ mode # "play"
    /\ PostRejected
    /\ WellFormedPost
    /\ Val(last.form.event) \in accepted
    /\ SubmittedEventId = MaxEventId
    /\ SubmittedDatetime = MaxEventTime
    /\ OutdatedEventId(last.response)
    /\ jobs = EmptyMap

----------------------------------------------------------------------------
(* C18 as stated: with submissions to the battery handled side by side,     *)
(* unless on play, no step lowers the battery's soc_udi_event_id or its    *)
(* soc_datetime, and when every submission has been answered and one was   *)
(* accepted, the battery holds the datetime and the id of an accepted      *)
(* submission of the highest id accepted.                                  *)
Answered(w) == inflight[w].pc = "done"
AcceptedWorkers ==
    {w \in Workers : Answered(w) /\ inflight[w].response = Some(request_processed)}
EventIdOf(w) == Val(inflight[w].request.form.event).event_id
DatetimeOf(w) == Val(inflight[w].request.form.datetime).t

C18_OrderedWithoutLocking ==
    /\ [][/\ OptLeq(assets[BatteryId].soc_udi_event_id, assets'[BatteryId].soc_udi_event_id)
          /\ OptLeq(assets[BatteryId].soc_datetime, assets'[BatteryId].soc_datetime)]_vars
    /\ []((inflight # <<>> /\ (\A w \in Workers : Answered(w)) /\ AcceptedWorkers # {})
            => \E w \in AcceptedWorkers :
                  /\ \A u \in AcceptedWorkers : EventIdOf(u) <= EventIdOf(w)
                  /\ Battery.soc_udi_event_id = Some(EventIdOf(w))
                  /\ Battery.soc_datetime = Some(DatetimeOf(w)))

----------------------------------------------------------------------------
(* Vocabulary of C19: the retrieval of the event accepted last, and of an   *)
(* event accepted before it.                                               *)
RetrievesLatest ==
    IsGet /\ IsSome(latest) /\ Requested(1) = Val(latest).event
RetrievesEarlier ==
    /\ IsGet
    /\ IsSome(latest)
    /\ Requested(1) \in accepted
    /\ Requested(1) # Val(latest).event
    /\ ~HasJob(Requested(1))
Unrecognized ==
    last.response = unrecognized_event(Requested(1).event_id, Requested(1).event_type)

\* The retrieval of the event accepted last: by the state of its job while
\* it has one, from the datetime it was submitted with when it has none.
LatestRetrieved ==
    RetrievesLatest =>
        LET e == Requested(1) IN
        /\ last.response.fn # "unrecognized_event"
        /\ (HasJob(e) /\ jobs[e].status \in NotReadyStates)
              => ScheduleNotReady(last.response, jobs[e])
        /\ (HasJob(e) /\ jobs[e].status = "failed")
              => SchedulingFailed(last.response)
        /\ (HasJob(e) /\ jobs[e].status = "finished")
              => /\ Len(last.trace) >= 1
                 /\ last.trace[1].message = JobProcessed
                 /\ last.trace[1].schedule_start = jobs[e].start
        /\ ~HasJob(e)
              => /\ Len(last.trace) >= 1
                 /\ last.trace[1].message = MostRecentEvent
                 /\ last.trace[1].schedule_start = Val(latest).datetime

(* C19 as stated: the event accepted last is retrieved as above, and an     *)
(* event accepted before it that has no job any more is answered           *)
(* unrecognized_event.                                                     *)
C19_EarlierEventUnrecognized ==
    /\ LatestRetrieved
    /\ RetrievesEarlier => Unrecognized

(* C19 amended: the event accepted last is retrieved as above, and an event *)
(* accepted before it that has no job any more is answered                 *)
(* unrecognized_event when its id differs from the id of the event         *)
(* accepted last, which it always does unless on play.                     *)
C19_LatestEventRecognized ==
    /\ LatestRetrieved
    /\ (RetrievesEarlier /\ Requested(1).event_id # Val(latest).event.event_id)
          => Unrecognized
    /\ (RetrievesEarlier /\ mode # "play")
          => Requested(1).event_id # Val(latest).event.event_id

C19_Witness ==
    /\ RetrievesLatest
    /\ ~HasJob(Requested(1))
    /\ mode # "play"
    /\ accepted # {Requested(1)}
    /\ last.trace[1].schedule_start = Val(latest).datetime
    /\ last.response.fn = "unknown_schedule"

----------------------------------------------------------------------------
(* C20 as stated: a retrieval that names several events and meets an error  *)
(* returns that error, with no values; one that returns a schedule reports *)
(* a start and a duration that fit every group of values: the rows of each *)
(* event begin at the reported start, each group has one value for every   *)
(* 15 minutes of the reported duration, and the values of an event are     *)
(* those a retrieval of that event alone returns.  Stated for stores whose *)
(* rows have no gap.                                                       *)
RetrievedAlone(i) ==
    get_device_message_response(<<Requested(i)>>, last.duration, assets, jobs,
                                [power |-> power, sources |-> sources]).response
RowsOf(i) ==
    StoredIn(last.trace[i].schedule_start, Min(last.duration, BVP_PLANNING_HORIZON))

C20_ErrorCarriesNoValues ==
    (IsGet /\ Len(last.events) > 1 /\ ~ScheduleReturned)
        => /\ "groups" \notin DOMAIN last.response
           /\ \E i \in 1..Len(last.events) :
                 /\ RetrievedAlone(i) = last.response
                 /\ \A j \in 1..(i - 1) : RetrievedAlone(j).fn = "request_processed"

\* The rows saved are those of consecutive 15-minute steps, so that a group
\* falls short of the duration for no lack of rows in its middle (C11).
RowsWithoutGap ==
    \A t \in DOMAIN power, u \in DOMAIN power :
        t < u => (t + resolution) \in DOMAIN power

C20_OneWindowForAllGroups ==
    /\ C20_ErrorCarriesNoValues
    /\ (ScheduleReturned /\ Len(last.events) > 1 /\ RowsWithoutGap)
          => \A i \in 1..Len(last.events) :
                /\ SetMin(RowsOf(i)) = last.response.start
                /\ Len(last.response.groups[i].values) * resolution = last.response.duration
                /\ last.response.groups[i].values = RetrievedAlone(i).groups[1].values

====
